---- MODULE Spec2Model ----
(***************************************************************************)
(* Model of the feed summarization pipeline (src/feedbin_summarize.ts) and *)
(* of the worker-queue runner (src/fetch-feeds.ts).                        *)
(*                                                                         *)
(*   SpecBatch  : batchArticles as a pure function of the article list     *)
(*   SpecRetry  : withRetry around an arbitrary fallible operation         *)
(*   SpecRunner : callInSequence, the shared-queue worker pool             *)
(*   Spec       : main() = loadArticles; extractFactsInBatches;            *)
(*                reduceToReport; writeFileSync                            *)
(*   SpecFetch  : fetchEntryContent and the saving of its result           *)
(*                (src/feedbin_fetch.ts)                                   *)
(*   SpecWindow : computeTimeWindow as a pure function of the fact list    *)
(*   SpecReduce : the same run from the moment the last extraction worker  *)
(*                has returned, over fact lists of several chunks          *)
(*                                                                         *)
(* JavaScript runs each continuation to completion, so one action is the   *)
(* code executed between two suspension points (await).                    *)
(***************************************************************************)
EXTENDS Integers, Sequences, FiniteSets, TLC

VARIABLES
  pc,          \* position of the standalone function under check (SpecBatch)
  articles,    \* Article[]: the list handed to batchArticles
  batches,     \* Article[][]: what batchArticles returned
  \* withRetry on its own (SpecRetry)
  tries,       \* parameter tries of withRetry
  attempt,     \* let attempt
  delayMs,     \* let delayMs
  rpc,         \* "calling" | "sleeping" | "returned" | "raised"
  log,         \* outcome of every invocation of fn so far, in order
  waits,       \* every delay slept so far, in order
  calls,       \* number of invocations of fn started so far
  outcome,     \* what withRetry returned or threw
  \* callInSequence (SpecRunner)
  list,        \* parameter list
  cConcurrency,\* parameter concurrency
  cQueue,      \* const queue = [...list]
  cLaunched,   \* workers started so far by the for-loop
  cWorker,     \* per worker: where it stands and the item it holds
  invoked,     \* per list position: how many times fnc was called with it
  cpc,         \* "launching" | "awaiting" | "returned"
  \* main() of feedbin_summarize.ts (Spec)
  run,         \* "LOADING" | "EXTRACTING" | "REDUCING" | "DONE" | "FAILED"
  file,        \* feedbin_articles.json: whether it exists and its rows
  requestConcurrency, \* the configured REQUEST_CONCURRENCY
  queue,       \* const queue = batches.map(...)
  results,     \* const results: Fact[][]
  active,      \* let active
  launched,    \* workers started so far by Array.from
  worker,      \* per worker: state, item held, attempt and delayMs of withRetry
  facts,       \* what extractFactsInBatches returned
  chunks,      \* const chunks = chunkArray(facts, 80)
  miniSummaries, \* const miniSummaries: string[]
  timeWindow,  \* const timeWindow = computeTimeWindow(facts)
  red,         \* the text call of reduceToReport in progress
  report,      \* feedbin_summary.md
  failure,     \* the error main() caught
  \* main() of feedbin_fetch.ts (SpecFetch)
  fpc,         \* "fetching" | "saved"
  entries,     \* const entries = await fetchEntries(taggedFeedIds)
  entriesWithContent, \* per entry: what its map callback has resolved to
  savedCsv,    \* feedbin_articles.csv
  savedJson    \* feedbin_articles.json

batchVars == <<pc, articles, batches>>
retryVars == <<tries, attempt, delayMs, rpc, log, waits, calls, outcome>>
runnerVars == <<list, cConcurrency, cQueue, cLaunched, cWorker, invoked, cpc>>
extractVars == <<queue, results, active, launched, worker>>
reduceVars == <<facts, chunks, miniSummaries, timeWindow, red, report>>
mainVars == <<run, file, requestConcurrency, failure>>
pipeVars == <<mainVars, extractVars, reduceVars>>
fetchVars == <<fpc, entries, entriesWithContent, savedCsv, savedJson>>
vars == <<batchVars, retryVars, runnerVars, pipeVars, fetchVars>>

----------------------------------------------------------------------------
(* Bounds *)

MaxArticles == 4      \* longest article list given to batchArticles
MaxTries == 7         \* largest value of the parameter tries of withRetry
MaxItems == 3         \* longest list given to callInSequence
MaxConcurrency == 3   \* largest concurrency of a worker pool
MaxRows == 3          \* most rows in the input file of a run
MaxChunks == 3        \* most chunks of a fact list given to reduceToReport
MaxFacts == 3         \* longest fact list given to computeTimeWindow
MaxEntries == 3       \* most entries handed to fetchEntryContent
MaxLiveRows == 2      \* most rows in the input file of a run checked for termination
MaxLiveWorkers == 2   \* largest worker pool of a run checked for termination

----------------------------------------------------------------------------
(* Each specification runs one component; the others stay unused *)

BatchIdle == pc = "idle"
RetryIdle ==
  /\ tries = 0 /\ attempt = 0 /\ delayMs = 0 /\ rpc = "idle"
  /\ log = <<>> /\ waits = <<>> /\ calls = 0 /\ outcome = <<>>
RunnerIdle ==
  /\ list = <<>> /\ cConcurrency = 0 /\ cQueue = <<>> /\ cLaunched = 0
  /\ cWorker = <<>> /\ invoked = <<>> /\ cpc = "idle"
FetchIdle ==
  /\ fpc = "idle" /\ entries = <<>> /\ entriesWithContent = <<>>
  /\ savedCsv = <<>> /\ savedJson = <<>>
MainIdle ==
  /\ run = "idle" /\ file = <<>> /\ requestConcurrency = 0
  /\ queue = <<>> /\ results = <<>> /\ active = 0 /\ launched = 0
  /\ worker = <<>> /\ facts = <<>> /\ chunks = <<>> /\ miniSummaries = <<>>
  /\ timeWindow = <<>> /\ red = <<>> /\ report = <<>> /\ failure = <<>>

----------------------------------------------------------------------------
(* Configurables, src/feedbin_summarize.ts:39-43 *)

MAX_INPUT_TOKENS == 12000
MAX_OUTPUT_TOKENS == 3000

Max(a, b) == IF a >= b THEN a ELSE b
Min(a, b) == IF a <= b THEN a ELSE b

\* Math.ceil(text.length / 4); a text is represented by its length
estimateTokens(len) == (len + 3) \div 4

systemOverhead == 800

maxInput == Max(3000, MAX_INPUT_TOKENS - systemOverhead - MAX_OUTPUT_TOKENS)

\* estimateTokens(art.extractedContent) + 50
approxOf(art) == estimateTokens(art.extractedContent) + 50

\* mutant: the cost of the incoming article is left out of the test
MustClose_CurrentOnly(currentTokens, approx, curLen) ==
  currentTokens > maxInput /\ curLen > 0

\* mutant: a batch is closed already when the article would fill it exactly
MustClose_AtCeiling(currentTokens, approx, curLen) ==
  currentTokens + approx >= maxInput /\ curLen > 0

\* if (currentTokens + approx > maxInput && current.length > 0)
MustClose(currentTokens, approx, curLen) ==
  currentTokens + approx > maxInput /\ curLen > 0

\* mutant: the batch under construction is never flushed at the end
Flush_Dropped(bs, current) == bs

\* if (current.length > 0) batches.push(current)
Flush(bs, current) ==
  IF Len(current) > 0 THEN Append(bs, current) ELSE bs

\* the for-loop of batchArticles, from article i on
RECURSIVE batchLoop(_, _, _, _, _)
batchLoop(arts, i, bs, current, currentTokens) ==
  IF i > Len(arts)
    THEN Flush(bs, current)
    ELSE LET art == arts[i]
             approx == approxOf(art)
         IN IF MustClose(currentTokens, approx, Len(current))
              THEN batchLoop(arts, i + 1, Append(bs, current), <<art>>, approx)
              ELSE batchLoop(arts, i + 1, bs, Append(current, art),
                             currentTokens + approx)

batchArticles(arts) == batchLoop(arts, 1, <<>>, <<>>, 0)

\* Array.prototype.flat() on a list of lists
RECURSIVE flat(_)
flat(ss) == IF ss = <<>> THEN <<>> ELSE Head(ss) \o flat(Tail(ss))

----------------------------------------------------------------------------
(* SpecBatch: batchArticles applied to every bounded article list *)

\* content lengths around the ceiling: cost(16200) = 4100 (two fit exactly),
\* cost(16201) = 4101, cost(32600) = 8200 (fits alone), cost(32601) = 8201
ContentLens == {1, 16200, 16201, 32600, 32601}

\* article i of a list carries the unique url i
MkArticles(lens) ==
  [i \in 1..Len(lens) |-> [url |-> i, extractedContent |-> lens[i]]]

LenSeqs(S, n) == UNION {[1..k -> S] : k \in 0..n}

InitBatch ==
  /\ pc = "start"
  /\ articles \in {MkArticles(l) : l \in LenSeqs(ContentLens, MaxArticles)}
  /\ batches = <<>>
  /\ RetryIdle /\ RunnerIdle /\ MainIdle /\ FetchIdle

CallBatchArticles ==
  /\ pc = "start"
  /\ batches' = batchArticles(articles)
  /\ pc' = "done"
  /\ UNCHANGED <<articles, retryVars, runnerVars, fetchVars, pipeVars>>

NextBatch == CallBatchArticles

SpecBatch == InitBatch /\ [][NextBatch]_vars

----------------------------------------------------------------------------
(* Claims on batchArticles *)

RECURSIVE SumApprox(_)
SumApprox(b) == IF b = <<>> THEN 0 ELSE approxOf(Head(b)) + SumApprox(Tail(b))

\* C1: the batches returned by batchArticles, concatenated in order, are
\* exactly the input list: nothing dropped, duplicated or reordered.
C1_FlattenIsInput ==
  pc = "done" => flat(batches) = articles

C1_Witness ==
  /\ pc = "done"
  /\ Len(batches) = 3
  /\ Len(articles) = 4
  /\ \E k \in 1..3 : Len(batches[k]) = 2

\* C2: a batch's summed cost (ceil(len/4) + 50 per article) stays within
\* max(3000, MAX_INPUT_TOKENS - 800 - MAX_OUTPUT_TOKENS) unless the batch is a
\* single article whose own cost exceeds it; an oversized article is always
\* alone in its batch and is never dropped.
C2_BatchWithinCeiling ==
  pc = "done" =>
    /\ \A k \in 1..Len(batches) :
         \/ SumApprox(batches[k]) <= maxInput
         \/ Len(batches[k]) = 1 /\ approxOf(batches[k][1]) > maxInput
    /\ \A i \in 1..Len(articles) :
         approxOf(articles[i]) > maxInput =>
           \E k \in 1..Len(batches) : batches[k] = <<articles[i]>>

C2_Witness ==
  /\ pc = "done"
  /\ \E k \in 1..Len(batches) :
       Len(batches[k]) = 1 /\ approxOf(batches[k][1]) > maxInput
  /\ \E k \in 1..Len(batches) :
       Len(batches[k]) = 2 /\ SumApprox(batches[k]) = maxInput

----------------------------------------------------------------------------
(* withRetry, src/feedbin_summarize.ts:312-334 *)

\* err?.response?.status of an error that carries no response: undefined
NoStatus == 0

InitialDelayMs == 1500
MaxDelayMs == 15000

\* mutant: every 4xx is retried as well
Retriable_All4xx(status) ==
  status = 429 \/ status >= 400 \/ status = NoStatus

\* const retriable = status === 429 || status >= 500 || !status
Retriable(status) ==
  status = 429 \/ status >= 500 \/ status = NoStatus

\* mutant: one attempt too many before giving up
GivesUp_OffByOne(attemptNow, maxTries) == attemptNow > maxTries

\* attempt >= tries
GivesUp(attemptNow, maxTries) == attemptNow >= maxTries

\* if (!retriable || attempt >= tries) throw err, attempt already incremented
Rethrows(attemptNow, status, maxTries) ==
  ~Retriable(status) \/ GivesUp(attemptNow, maxTries)

\* mutant: the delay grows without the ceiling
NextDelay_Uncapped(d) == (d * 18) \div 10

\* delayMs = Math.min(delayMs * 1.8, 15000)
NextDelay(d) == Min((d * 18) \div 10, MaxDelayMs)

\* C22: batchArticles is greedy-maximal and never emits an empty batch:
\* every batch returned is non-empty (an empty article list gives zero
\* batches), and for every two consecutive batches the summed cost of the
\* earlier one plus the cost of the first article of the later one exceeds
\* the ceiling: a batch is closed only when the next article does not fit.
C22_GreedyMaximalNonEmpty ==
  pc = "done" =>
    /\ articles = <<>> => batches = <<>>
    /\ \A k \in 1..Len(batches) : Len(batches[k]) > 0
    /\ \A k \in 1..(Len(batches) - 1) :
         SumApprox(batches[k]) + approxOf(batches[k + 1][1]) > maxInput

C22_Witness ==
  /\ pc = "done"
  /\ Len(batches) = 2
  /\ Len(batches[1]) = 2
  /\ SumApprox(batches[1]) = maxInput
  /\ approxOf(batches[2][1]) < maxInput

----------------------------------------------------------------------------
(* SpecRetry: withRetry(fn, label, tries) for an fn that returns a value or *)
(* throws an error with or without response.status                          *)

Statuses == {429, 500, 400, 404, NoStatus}
Values == {"v1", "v2"}

OpOk(v) == [ok |-> TRUE, value |-> v, status |-> NoStatus]
OpErr(s) == [ok |-> FALSE, value |-> "none", status |-> s]

InitRetry ==
  /\ tries \in 1..MaxTries
  /\ attempt = 0
  /\ delayMs = InitialDelayMs
  /\ rpc = "calling"
  /\ log = <<>>
  /\ waits = <<>>
  /\ calls = 1
  /\ outcome = OpErr(NoStatus)
  /\ BatchIdle /\ articles = <<>> /\ batches = <<>> /\ RunnerIdle /\ MainIdle /\ FetchIdle

\* return await fn()
FnReturns(v) ==
  /\ rpc = "calling"
  /\ log' = Append(log, OpOk(v))
  /\ outcome' = OpOk(v)
  /\ rpc' = "returned"
  /\ UNCHANGED <<tries, attempt, delayMs, waits, calls>>
  /\ UNCHANGED <<batchVars, runnerVars, fetchVars, pipeVars>>

\* catch (err): attempt++, classify, rethrow or start the backoff timer
FnThrows(s) ==
  /\ rpc = "calling"
  /\ log' = Append(log, OpErr(s))
  /\ attempt' = attempt + 1
  /\ IF Rethrows(attempt + 1, s, tries)
       THEN rpc' = "raised" /\ outcome' = OpErr(s)
       ELSE rpc' = "sleeping" /\ UNCHANGED outcome
  /\ UNCHANGED <<tries, delayMs, waits, calls>>
  /\ UNCHANGED <<batchVars, runnerVars, fetchVars, pipeVars>>

\* the timer of line 330 fires: delayMs is updated and the loop calls fn again
BackoffElapsed ==
  /\ rpc = "sleeping"
  /\ waits' = Append(waits, delayMs)
  /\ delayMs' = NextDelay(delayMs)
  /\ calls' = calls + 1
  /\ rpc' = "calling"
  /\ UNCHANGED <<tries, attempt, log, outcome>>
  /\ UNCHANGED <<batchVars, runnerVars, fetchVars, pipeVars>>

NextRetry ==
  \/ \E v \in Values : FnReturns(v)
  \/ \E s \in Statuses : FnThrows(s)
  \/ BackoffElapsed

SpecRetry == InitRetry /\ [][NextRetry]_vars

----------------------------------------------------------------------------
(* Claims on withRetry *)

IsFatalStatus(s) == s >= 400 /\ s < 500 /\ s # 429

\* C5: a failed attempt is retried only when its status is 429, 500 or above,
\* or absent; a failure with any other 4xx status is raised at once: it is
\* the last invocation, no backoff follows it and the caller gets that error.
C5_FatalNotRetried ==
  /\ \A i \in 1..Len(log) :
       (~log[i].ok /\ i < Len(log)) =>
          log[i].status = 429 \/ log[i].status >= 500 \/ log[i].status = NoStatus
  /\ \A i \in 1..Len(log) :
       (~log[i].ok /\ IsFatalStatus(log[i].status)) =>
          /\ i = Len(log)
          /\ rpc = "raised"
          /\ outcome = log[i]
          /\ calls = i
          /\ Len(waits) = i - 1

C5_Witness ==
  /\ rpc = "raised"
  /\ tries = 5
  /\ log = <<OpErr(404)>>
  /\ calls = 1
  /\ waits = <<>>

\* C6: fn is invoked at most tries times; a success on invocation k+1 after k
\* retriable failures is returned after exactly k+1 invocations and k waits;
\* when every invocation fails retriably the error of the last one is raised
\* after exactly tries invocations.
C6_AttemptsBounded ==
  /\ calls <= tries
  /\ rpc = "returned" =>
       /\ calls = Len(log)
       /\ Len(waits) = Len(log) - 1
       /\ outcome = log[Len(log)]
       /\ outcome.ok
       /\ \A i \in 1..(Len(log) - 1) : ~log[i].ok /\ Retriable(log[i].status)
  /\ (rpc = "raised" /\ \A i \in 1..Len(log) : Retriable(log[i].status)) =>
       /\ calls = tries
       /\ Len(log) = tries
       /\ Len(waits) = tries - 1
       /\ outcome = log[tries]

C6_Witness ==
  /\ rpc = "returned"
  /\ tries = 5
  /\ log = <<OpErr(429), OpErr(429), OpOk("v1")>>
  /\ calls = 3
  /\ Len(waits) = 2

RECURSIVE Pow(_, _)
Pow(b, e) == IF e = 0 THEN 1 ELSE b * Pow(b, e - 1)

\* min(1500 * 1.8^(n-1), 15000); from n = 6 on the product is far above the
\* ceiling (and above the integers TLC computes with)
ClaimedDelay(n) ==
  IF n >= 6 THEN 15000
  ELSE Min((1500 * Pow(18, n - 1)) \div Pow(10, n - 1), 15000)

\* C20: the backoff delay slept before the n-th retry of a withRetry call is
\* min(1500 * 1.8^(n-1), 15000) milliseconds, that is 1500, 2700, 4860,
\* 8748, 15000, 15000, ...: the delays never decrease and never exceed
\* 15000.
C20_BackoffSchedule ==
  /\ \A n \in 1..Len(waits) :
       /\ waits[n] = ClaimedDelay(n)
       /\ waits[n] <= 15000
       /\ n > 1 => waits[n - 1] <= waits[n]
  /\ Len(waits) <= 6 =>
       waits = SubSeq(<<1500, 2700, 4860, 8748, 15000, 15000>>, 1, Len(waits))
  /\ rpc = "sleeping" => delayMs = ClaimedDelay(Len(waits) + 1)

C20_Witness ==
  /\ rpc = "calling"
  /\ tries = 7
  /\ waits = <<1500, 2700, 4860, 8748, 15000, 15000>>
  /\ calls = 7

----------------------------------------------------------------------------
(* callInSequence, src/fetch-feeds.ts:88-110 *)

\* list element i: its position and whether JavaScript treats it as truthy
\* (the function is generic in T: 0, "", null are values of T as well)
MkList(truthy) == [i \in 1..Len(truthy) |-> [id |-> i, truthy |-> truthy[i]]]

\* while (queue.length > 0) { item = queue.shift(); if (item) ... }:
\* the queue once the loop has shifted away the leading falsy items
RECURSIVE SkipFalsy(_)
SkipFalsy(q) ==
  IF q = <<>> \/ Head(q).truthy THEN q ELSE SkipFalsy(Tail(q))

NoItem == [id |-> 0, truthy |-> FALSE]

\* mutant: the worker takes the last item of the queue (pop)
RunWorker_Pop(w) ==
  IF cQueue = <<>>
    THEN /\ cQueue' = <<>>
         /\ cWorker' = [cWorker EXCEPT ![w] = [st |-> "done", item |-> NoItem]]
         /\ UNCHANGED invoked
    ELSE /\ cQueue' = SubSeq(cQueue, 1, Len(cQueue) - 1)
         /\ cWorker' = [cWorker EXCEPT ![w] =
                          [st |-> "awaiting", item |-> cQueue[Len(cQueue)]]]
         /\ invoked' = [invoked EXCEPT ![cQueue[Len(cQueue)].id] = @ + 1]

\* a worker runs from the loop test to `await fnc(item)` or to its end
RunWorker(w) ==
  LET q == SkipFalsy(cQueue)
  IN IF q = <<>>
       THEN /\ cQueue' = <<>>
            /\ cWorker' = [cWorker EXCEPT ![w] = [st |-> "done", item |-> NoItem]]
            /\ UNCHANGED invoked
       ELSE /\ cQueue' = Tail(q)
            /\ cWorker' = [cWorker EXCEPT ![w] = [st |-> "awaiting", item |-> Head(q)]]
            /\ invoked' = [invoked EXCEPT ![Head(q).id] = @ + 1]

InitRunner ==
  /\ list \in {MkList(t) : t \in LenSeqs(BOOLEAN, MaxItems)}
  /\ cConcurrency \in 1..MaxConcurrency
  /\ cQueue = list
  /\ cLaunched = 0
  /\ cWorker = [w \in 1..cConcurrency |-> [st |-> "unstarted", item |-> NoItem]]
  /\ invoked = [i \in 1..Len(list) |-> 0]
  /\ cpc = "launching"
  /\ BatchIdle /\ articles = <<>> /\ batches = <<>> /\ RetryIdle /\ MainIdle /\ FetchIdle

\* for (let i = 0; i < concurrency; i++) promises.push(worker())
LaunchWorker ==
  /\ cpc = "launching"
  /\ cLaunched < cConcurrency
  /\ cLaunched' = cLaunched + 1
  /\ RunWorker(cLaunched + 1)
  /\ cpc' = IF cLaunched + 1 = cConcurrency THEN "awaiting" ELSE cpc
  /\ UNCHANGED <<list, cConcurrency, batchVars, retryVars, pipeVars, fetchVars>>

\* fnc(item) resolves and the worker goes round its loop
FncResolves(w) ==
  /\ cpc = "awaiting"
  /\ cWorker[w].st = "awaiting"
  /\ RunWorker(w)
  /\ UNCHANGED <<list, cConcurrency, cLaunched, cpc>>
  /\ UNCHANGED <<batchVars, retryVars, pipeVars, fetchVars>>

\* await Promise.all(promises)
RunnerReturns ==
  /\ cpc = "awaiting"
  /\ \A w \in 1..cConcurrency : cWorker[w].st = "done"
  /\ cpc' = "returned"
  /\ UNCHANGED <<list, cConcurrency, cQueue, cLaunched, cWorker, invoked>>
  /\ UNCHANGED <<batchVars, retryVars, pipeVars, fetchVars>>

NextRunner ==
  \/ LaunchWorker
  \/ \E w \in 1..cConcurrency : FncResolves(w)
  \/ RunnerReturns

SpecRunner == InitRunner /\ [][NextRunner]_vars

----------------------------------------------------------------------------
(* Claims on the bounded concurrency runner *)

\* C3: for any list contents, any concurrency >= 1 and any interleaving, when
\* no operation raises, the per-item operation is executed for every item of
\* the list exactly once: never twice, none skipped, and the queue is empty
\* when the runner returns.
C3_EveryItemExactlyOnce ==
  /\ \A i \in 1..Len(list) : invoked[i] <= 1
  /\ cpc = "returned" =>
       /\ cQueue = <<>>
       /\ \A i \in 1..Len(list) : invoked[i] = 1

\* the operations in flight
Awaiting == {w \in DOMAIN cWorker : cWorker[w].st = "awaiting"}

\* what invoked is once the operations of the truthy items up to position p
\* have been started and no other
StartedUpTo(p) ==
  [j \in 1..Len(list) |-> IF j <= p /\ list[j].truthy THEN 1 ELSE 0]

\* C19: with concurrency 1 the runner is strictly sequential: at most one
\* operation is in flight, operations start in list (FIFO) order, and the
\* operation of the next item starts only in the step in which the one
\* before it completes.
C19_SequentialWhenConcurrencyOne ==
  /\ [](cConcurrency = 1 =>
          /\ Cardinality(Awaiting) <= 1
          /\ \A w \in Awaiting :
               /\ cWorker[w].item.truthy
               /\ invoked = StartedUpTo(cWorker[w].item.id)
               /\ cQueue = SubSeq(list, cWorker[w].item.id + 1, Len(list)))
  /\ [][ (cConcurrency = 1 /\ invoked' # invoked) =>
           \E p \in 1..Len(list) :
             /\ invoked' = StartedUpTo(p)
             /\ invoked[p] = 0
             /\ Awaiting' = {1} /\ cWorker'[1].item = list[p]
             /\ \A w \in Awaiting :
                  /\ cWorker[w].item.id < p
                  /\ cWorker'[w] # cWorker[w] ]_vars

C19_Witness ==
  /\ cConcurrency = 1
  /\ Len(list) = 3
  /\ \A i \in 1..3 : list[i].truthy
  /\ cWorker[1] = [st |-> "awaiting", item |-> list[2]]
  /\ invoked = <<1, 1, 0>>
  /\ cQueue = <<list[3]>>

----------------------------------------------------------------------------
(* The model-call layer, src/feedbin_summarize.ts:165-310 *)

DefaultTries == 5     \* tries = 5, the default every caller of withRetry uses
ChunkSize == 80       \* chunkArray(facts, 80)

\* JSON values, as far as the extractor looks into them
JUndef == [t |-> "undefined"]
JNum == [t |-> "number"]
JArr(items) == [t |-> "array", items |-> items]
JObj(f) == [t |-> "object", facts |-> f]

\* Fact.published: null, "", a text Date.parse cannot read, or an ISO
\* timestamp, which is the UTC day it falls on and the milliseconds into it
NullPublished == [kind |-> "null", day |-> 0, ms |-> 0]
EmptyPublished == [kind |-> "empty", day |-> 0, ms |-> 0]
TextPublished == [kind |-> "text", day |-> 0, ms |-> 0]
IsoPublished(day, ms) == [kind |-> "iso", day |-> day, ms |-> ms]

BaseDay == 19700     \* a day late in 2023, counted from 1970-01-01
InRange == 9         \* confidence 0.9

\* a Fact, as far as the pipeline looks into it: the k-th fact the model
\* drew from the article url; confidence is in tenths
Fact(url, k, published, confidence) ==
  [t |-> "fact", url |-> url, k |-> k, published |-> published,
   confidence |-> confidence]

\* texts: blank (undefined, "" or white space), not JSON, or the JSON text of v
BlankText == [blank |-> TRUE, json |-> FALSE, value |-> JUndef, partial |-> FALSE]
NonJsonText(partial) ==
  [blank |-> FALSE, json |-> FALSE, value |-> JUndef, partial |-> partial]
\* JSON.stringify(v)
JSONstringify(v) == [blank |-> FALSE, json |-> TRUE, value |-> v, partial |-> FALSE]
\* Markdown returned by a text call for the unit of work `of`
Markdown(of, partial) ==
  [blank |-> FALSE, json |-> FALSE, value |-> of, partial |-> partial]

\* JSON.parse(text): the value, or a SyntaxError
JSONparse(text) ==
  IF text.json THEN [threw |-> FALSE, value |-> text.value]
               ELSE [threw |-> TRUE, value |-> JUndef]

\* errors: what they are and what err?.response?.status reads on them
Err(kind, status, cause) == [kind |-> kind, status |-> status, cause |-> cause]
NoErr == Err("none", NoStatus, "none")
TruncationError == Err("truncation", NoStatus, "none")
EmptyError == Err("empty", NoStatus, "none")
ServiceError(status) == Err("service", status, "none")

Returned(text) == [threw |-> FALSE, text |-> text, err |-> NoErr]
Threw(err) == [threw |-> TRUE, text |-> BlankText, err |-> err]

\* what the service does with one request: it rejects the call, or resolves
\* with a response object
Rejects(httpStatus) ==
  [rejected |-> TRUE, httpStatus |-> httpStatus, status |-> "none",
   reason |-> "none", output_parsed |-> JUndef, output_text |-> BlankText]
Resolves(status, reason, parsed, text) ==
  [rejected |-> FALSE, httpStatus |-> NoStatus, status |-> status,
   reason |-> reason, output_parsed |-> parsed, output_text |-> text]

IsTruncated(resp) ==
  resp.status = "incomplete" /\ resp.reason = "max_output_tokens"

\* callResponsesFacts, lines 186-206
callResponsesFacts(resp) ==
  IF resp.rejected THEN Threw(ServiceError(resp.httpStatus))
  ELSE IF resp.output_parsed # JUndef
    THEN Returned(JSONstringify(resp.output_parsed))
  ELSE IF ~resp.output_text.blank THEN Returned(resp.output_text)
  ELSE IF IsTruncated(resp) THEN Threw(TruncationError)
  ELSE Threw(EmptyError)

\* callResponsesText, lines 272-289
callResponsesText(resp) ==
  IF resp.rejected THEN Threw(ServiceError(resp.httpStatus))
  ELSE IF ~resp.output_text.blank THEN Returned(resp.output_text)
  ELSE IF IsTruncated(resp) THEN Threw(TruncationError)
  ELSE Threw(EmptyError)

\* catch (err) { const e = new Error(...); e.cause = err; throw e }:
\* the new error has no response property
WrapError(err) == Err("wrapped", NoStatus, err.kind)

\* callOpenAIFacts, lines 244-264
callOpenAIFacts(resp) ==
  LET r == callResponsesFacts(resp)
  IN IF r.threw THEN Threw(WrapError(r.err)) ELSE r

\* callOpenAIText, lines 292-310
callOpenAIText(resp) ==
  LET r == callResponsesText(resp)
  IN IF r.threw THEN Threw(WrapError(r.err)) ELSE r

\* Array.isArray(parsedJson) ? parsedJson : parsedJson?.facts
ParsedFacts(v) ==
  IF v.t = "array" THEN v
  ELSE IF v.t = "object" THEN v.facts
  ELSE JUndef

\* mutant: the element goes to the front (unshift)
push_Unshift(arr, x) == <<x>> \o arr

\* arr.push(x)
push(arr, x) == Append(arr, x)

\* results.flat(): arrays are spliced in, anything else stays an element
RECURSIVE flatResults(_)
flatResults(rs) ==
  IF rs = <<>> THEN <<>>
  ELSE (IF Head(rs).t = "array" THEN Head(rs).items ELSE <<Head(rs)>>)
         \o flatResults(Tail(rs))

\* chunkArray(arr, size), lines 409-413
RECURSIVE chunkArray(_, _)
chunkArray(arr, size) ==
  IF arr = <<>> THEN <<>>
  ELSE <<SubSeq(arr, 1, Min(size, Len(arr)))>>
         \o chunkArray(SubSeq(arr, Min(size, Len(arr)) + 1, Len(arr)), size)

\* numbers as computeTimeWindow meets them: NaN, or a time in milliseconds
\* kept as whole days and the remainder
NaN == [nan |-> TRUE, day |-> 0, ms |-> 0]
Num(day, ms) == [nan |-> FALSE, day |-> day, ms |-> ms]
isNaN(n) == n.nan

\* f.published of an element of the fact list (undefined on a non-object)
publishedOf(f) == IF f.t = "fact" THEN f.published ELSE NullPublished

\* Date.parse(text)
DateParse(p) == IF p.kind = "iso" THEN Num(p.day, p.ms) ELSE NaN

\* f.published ? Date.parse(f.published) : NaN
parsedDate(f) ==
  IF publishedOf(f).kind \in {"null", "empty"} THEN NaN
  ELSE DateParse(publishedOf(f))

\* mutant: the comparator is (a, b) => b - a
Before_Descending(a, b) == b.day < a.day \/ (a.day = b.day /\ b.ms < a.ms)

\* a - b < 0
Before(a, b) == a.day < b.day \/ (a.day = b.day /\ a.ms < b.ms)

RECURSIVE insertSorted(_, _)
insertSorted(x, ns) ==
  IF ns = <<>> THEN <<x>>
  ELSE IF Before(x, Head(ns)) THEN <<x>> \o ns
  ELSE <<Head(ns)>> \o insertSorted(x, Tail(ns))

\* .sort((a, b) => a - b)
RECURSIVE sortAscending(_)
sortAscending(ns) ==
  IF ns = <<>> THEN <<>>
  ELSE insertSorted(ns[Len(ns)], sortAscending(SubSeq(ns, 1, Len(ns) - 1)))

\* new Date(ms).toISOString().slice(0, 10): the UTC calendar day
fmt(n) == n.day

\* the strings computeTimeWindow returns, and timeWindow before the call
NoWindow == [t |-> "unset", from |-> 0, to |-> 0]
LastWeek == [t |-> "the last week", from |-> 0, to |-> 0]
Window(from, to) == [t |-> "range", from |-> from, to |-> to]

\* mutant: no placeholder when no fact carries a readable date
computeTimeWindow_NoPlaceholder(fs) ==
  LET dates == sortAscending(
                 SelectSeq([i \in 1..Len(fs) |-> parsedDate(fs[i])],
                           LAMBDA n : ~isNaN(n)))
  IN IF Len(dates) = 0 THEN NoWindow
     ELSE Window(fmt(dates[1]), fmt(dates[Len(dates)]))

\* computeTimeWindow(facts), lines 415-423
computeTimeWindow(fs) ==
  LET dates == sortAscending(
                 SelectSeq([i \in 1..Len(fs) |-> parsedDate(fs[i])],
                           LAMBDA n : ~isNaN(n)))
  IN IF Len(dates) = 0 THEN LastWeek
     ELSE Window(fmt(dates[1]), fmt(dates[Len(dates)]))

\* the values of Fact.published the function is checked on: missing or
\* null, empty, unreadable, and timestamps on three days, one of them in the
\* last millisecond of its day
Publisheds ==
  {NullPublished, EmptyPublished, TextPublished,
   IsoPublished(BaseDay, 0), IsoPublished(BaseDay, 86399999),
   IsoPublished(BaseDay + 1, 0), IsoPublished(BaseDay + 6, 43200000)}

FactsWith(ps) == [i \in 1..Len(ps) |-> Fact(i, 1, ps[i], InRange)]

InitWindow ==
  /\ pc = "start"
  /\ \E n \in 0..MaxFacts : \E ps \in [1..n -> Publisheds] :
       facts = FactsWith(ps)
  /\ timeWindow = NoWindow
  /\ articles = <<>> /\ batches = <<>>
  /\ run = "idle" /\ file = <<>> /\ requestConcurrency = 0
  /\ queue = <<>> /\ results = <<>> /\ active = 0 /\ launched = 0
  /\ worker = <<>> /\ chunks = <<>> /\ miniSummaries = <<>>
  /\ red = <<>> /\ report = <<>> /\ failure = <<>>
  /\ RetryIdle /\ RunnerIdle /\ FetchIdle

CallComputeTimeWindow ==
  /\ pc = "start"
  /\ timeWindow' = computeTimeWindow(facts)
  /\ pc' = "done"
  /\ UNCHANGED <<articles, batches, retryVars, runnerVars, fetchVars, mainVars, extractVars>>
  /\ UNCHANGED <<facts, chunks, miniSummaries, red, report>>

NextWindow == CallComputeTimeWindow

SpecWindow == InitWindow /\ [][NextWindow]_vars

\* the facts whose published value Date.parse reads
Parseable == {i \in 1..Len(facts) : facts[i].published.kind = "iso"}

\* C14: computeTimeWindow returns '<min> to <max>', the calendar days of the
\* earliest and of the latest parseable published timestamp of the fact
\* list, whatever the order of the facts and leaving out facts whose
\* published is null, missing or unparseable; with no parseable timestamp
\* it returns the placeholder phrase.
C14_TimeWindowIsMinToMax ==
  LET NotAfter(i, j) ==
        \/ facts[i].published.day < facts[j].published.day
        \/ /\ facts[i].published.day = facts[j].published.day
           /\ facts[i].published.ms <= facts[j].published.ms
  IN pc = "done" =>
       IF Parseable = {} THEN timeWindow = LastWeek
       ELSE \E lo \in Parseable : \E hi \in Parseable :
              /\ \A i \in Parseable : NotAfter(lo, i) /\ NotAfter(i, hi)
              /\ timeWindow = Window(facts[lo].published.day,
                                     facts[hi].published.day)

C14_Witness ==
  /\ pc = "done"
  /\ Len(facts) = 3
  /\ facts[1].published = IsoPublished(BaseDay + 6, 43200000)
  /\ facts[2].published = TextPublished
  /\ facts[3].published = IsoPublished(BaseDay, 86399999)
  /\ timeWindow = Window(BaseDay, BaseDay + 6)

\* the user message of a chunk call: the instructions and JSON.stringify(part)
ChunkPrompt(part) == [kind |-> "chunk", facts |-> JSONstringify(JArr(part))]

\* mutant: the briefs are labelled from [Chunk 0]
FinalPrompt_ZeroBased(tw, ms) ==
  [kind |-> "final", timeWindow |-> tw,
   briefs |-> [i \in 1..Len(ms) |-> [label |-> i - 1, brief |-> ms[i]]]]

\* the user message of the final call: buildExecutivePrompt(timeWindow) and
\* miniSummaries.map((s, i) => `---\n[Chunk ${i + 1}]\n${s}`).join("\n\n")
FinalPrompt(tw, ms) ==
  [kind |-> "final", timeWindow |-> tw,
   briefs |-> [i \in 1..Len(ms) |-> [label |-> i, brief |-> ms[i]]]]

----------------------------------------------------------------------------
(* main(), src/feedbin_summarize.ts:502-516, with loadArticles,             *)
(* extractFactsInBatches and reduceToReport                                 *)

FactsLabel(i) == [kind |-> "facts", idx |-> i]
ChunkLabel(i) == [kind |-> "chunk", idx |-> i]
FinalLabel == [kind |-> "final", idx |-> 0]

NoReport == BlankText
NoQueueItem == [batch |-> <<>>, index |-> 0]
IdleWorker == [st |-> "unstarted", item |-> NoQueueItem, attempt |-> 0,
               delayMs |-> InitialDelayMs]
NoPrompt == [kind |-> "none"]
IdleCall == [stage |-> "idle", i |-> 0, st |-> "idle", attempt |-> 0,
             delayMs |-> InitialDelayMs, prompt |-> NoPrompt]

\* a withRetry call that has just invoked fn for the first time
FreshCall(stage, i, prompt) ==
  [stage |-> stage, i |-> i, st |-> "calling", attempt |-> 0,
   delayMs |-> InitialDelayMs, prompt |-> prompt]

\* rows of the input file: row i has url i; a content length 0 is an empty
\* text, which loadArticles filters out (tried on the files of one and two
\* rows); two rows of RowLen do not fit one batch (cost 4101 each), two
\* rows of PairLen do (cost 4100 each)
RowLen == 16201
PairLen == 16200
FullRows(n) == [i \in 1..n |-> RowLen]
FileRows ==
  {FullRows(n) : n \in 0..MaxRows}
    \cup {[FullRows(n) EXCEPT ![1] = 0] : n \in 1..2}
    \cup {<<PairLen, PairLen, RowLen>>}
Files ==
  {[exists |-> FALSE, rows |-> <<>>]}
    \cup {[exists |-> TRUE, rows |-> MkArticles(l)] : l \in FileRows}

\* REQUEST_CONCURRENCY is a configurable (10 in the source); the worker pool
\* is checked for one worker, two workers and MaxConcurrency workers
Concurrencies == {1, 2, MaxConcurrency}

\* .filter((a) => a.url && a.extractedContent)
loadArticles(rows) ==
  SelectSeq(rows, LAMBDA a : a.url # 0 /\ a.extractedContent # 0)

\* mutant: one worker more than configured
WorkerCount_OneMore == Max(1, requestConcurrency) + 1

\* Array.from({ length: Math.max(1, REQUEST_CONCURRENCY) }, ...)
WorkerCount == Max(1, requestConcurrency)

Workers == 1..WorkerCount

\* batches.map((batch, i) => ({ batch, index: i + 1 }))
MkQueue(bs) == [i \in 1..Len(bs) |-> [batch |-> bs[i], index |-> i]]

\* what the service may answer to the extraction request of one batch
OneFactPerArticle(item) ==
  [i \in 1..Len(item.batch) |->
     Fact(item.batch[i].url, 1, IsoPublished(BaseDay + item.batch[i].url, 0),
          InRange)]
FactsPayloads(item) == {<<>>, OneFactPerArticle(item)}

\* facts that break the schema's bounds on confidence (1.7): only text the
\* code parses itself can carry them, output_parsed is held to the schema
OutOfRange == 17
Overconfident(item) ==
  [i \in 1..Len(item.batch) |->
     [OneFactPerArticle(item)[i] EXCEPT !.confidence = OutOfRange]]

\* bare arrays the service may send as text. No line of the code reads
\* confidence, so a run with out-of-range facts goes as the run with the
\* same facts in range; the out-of-range answer is offered for the first
\* batch only
RawFactsPayloads(item) ==
  {OneFactPerArticle(item)}
    \cup (IF item.index = 1 THEN {Overconfident(item)} ELSE {})
HttpFailures == {429, 404}

FactsResponses(item) ==
  IF item = NoQueueItem THEN {} ELSE
  {Rejects(s) : s \in HttpFailures}
    \cup {Resolves("completed", "none", JObj(JArr(p)), BlankText) :
             p \in FactsPayloads(item)}
    \cup {Resolves("completed", "none", JUndef, t) :
             t \in {JSONstringify(JArr(p)) : p \in RawFactsPayloads(item)}
                     \cup {JSONstringify(JObj(JNum)),
                           JSONstringify(JObj(JUndef)),
                           NonJsonText(FALSE), BlankText}}
    \cup {Resolves("incomplete", "max_output_tokens", JUndef, t) :
             t \in {BlankText, NonJsonText(TRUE)}}

TextResponses(label) ==
  {Rejects(s) : s \in HttpFailures}
    \cup {Resolves("completed", "none", JUndef, t) :
             t \in {Markdown(label, FALSE), BlankText}}
    \cup {Resolves("incomplete", "max_output_tokens", JUndef, t) :
             t \in {BlankText, Markdown(label, TRUE)}}

InitMain ==
  /\ run = "LOADING"
  /\ file \in Files
  /\ requestConcurrency \in Concurrencies
  /\ articles = <<>>
  /\ batches = <<>>
  /\ queue = <<>>
  /\ results = <<>>
  /\ active = 0
  /\ launched = 0
  /\ worker = [w \in Workers |-> IdleWorker]
  /\ facts = <<>>
  /\ chunks = <<>>
  /\ miniSummaries = <<>>
  /\ timeWindow = NoWindow
  /\ red = IdleCall
  /\ report = NoReport
  /\ failure = NoErr
  /\ BatchIdle /\ RetryIdle /\ RunnerIdle /\ FetchIdle

\* loadArticles finds no input file: console.error, process.exit(1)
LoadFails ==
  /\ run = "LOADING"
  /\ ~file.exists
  /\ run' = "FAILED"
  /\ failure' = Err("no-input", NoStatus, "none")
  /\ UNCHANGED <<file, requestConcurrency, articles, batches>>
  /\ UNCHANGED <<extractVars, reduceVars, pc, retryVars, runnerVars, fetchVars>>

\* loadArticles returns; extractFactsInBatches builds batches and queue
LoadArticles ==
  /\ run = "LOADING"
  /\ file.exists
  /\ articles' = loadArticles(file.rows)
  /\ batches' = batchArticles(articles')
  /\ queue' = MkQueue(batches')
  /\ results' = <<>>
  /\ active' = 0
  /\ run' = "EXTRACTING"
  /\ UNCHANGED <<file, requestConcurrency, failure, launched, worker>>
  /\ UNCHANGED <<reduceVars, pc, retryVars, runnerVars, fetchVars>>

\* mutant: a worker that finds the queue empty never returns
WorkerLoop_NeverReturns(w, act) ==
  IF queue = <<>>
    THEN /\ worker' = [worker EXCEPT ![w] = IdleWorker]
         /\ active' = act
         /\ UNCHANGED queue
    ELSE /\ worker' = [worker EXCEPT ![w] =
                         [st |-> "calling", item |-> Head(queue), attempt |-> 0,
                          delayMs |-> InitialDelayMs]]
         /\ queue' = Tail(queue)
         /\ active' = act + 1

\* worker(), from the loop test to the first request or to its return
WorkerLoop(w, act) ==
  IF queue = <<>>
    THEN /\ worker' = [worker EXCEPT ![w] = [IdleWorker EXCEPT !.st = "done"]]
         /\ active' = act
         /\ UNCHANGED queue
    ELSE /\ worker' = [worker EXCEPT ![w] =
                         [st |-> "calling", item |-> Head(queue), attempt |-> 0,
                          delayMs |-> InitialDelayMs]]
         /\ queue' = Tail(queue)
         /\ active' = act + 1

\* Array.from(..., () => worker()): the workers start one after the other,
\* each running to its first await, before any response is handled
LaunchFactsWorker ==
  /\ run = "EXTRACTING"
  /\ launched < WorkerCount
  /\ launched' = launched + 1
  /\ WorkerLoop(launched + 1, active)
  /\ UNCHANGED <<mainVars, results, articles, batches>>
  /\ UNCHANGED <<reduceVars, pc, retryVars, runnerVars, fetchVars>>

\* the label withRetry and the log lines use for the call in progress
RedLabel == IF red.stage = "chunk" THEN ChunkLabel(red.i) ELSE FinalLabel

\* mutant: the catch logs the error and lets the process run on
MainCatches_LogOnly(err) ==
  /\ failure' = err
  /\ UNCHANGED run

\* main()'s catch: console.error, process.exit(1)
MainCatches(err) ==
  /\ run' = "FAILED"
  /\ failure' = err

\* a facts request fails inside callOpenAIFacts: withRetry's catch runs
FactsCallThrows(w, resp) ==
  LET r == callOpenAIFacts(resp)
      me == worker[w]
  IN /\ run = "EXTRACTING"
     /\ launched = WorkerCount
     /\ me.st = "calling"
     /\ resp \in FactsResponses(me.item)
     /\ r.threw
     /\ IF Rethrows(me.attempt + 1, r.err.status, DefaultTries)
          THEN /\ worker' = [worker EXCEPT ![w].st = "failed",
                                           ![w].attempt = me.attempt + 1]
               /\ MainCatches(r.err)
          ELSE /\ worker' = [worker EXCEPT ![w].st = "sleeping",
                                           ![w].attempt = me.attempt + 1]
               /\ UNCHANGED <<run, failure>>
     /\ UNCHANGED <<file, requestConcurrency, queue, results, active, launched>>
     /\ UNCHANGED <<articles, batches, reduceVars, pc, retryVars, runnerVars, fetchVars>>

\* the backoff timer of a worker's withRetry fires and fn is called again
FactsBackoffElapsed(w) ==
  /\ run = "EXTRACTING"
  /\ worker[w].st = "sleeping"
  /\ worker' = [worker EXCEPT ![w].st = "calling",
                              ![w].delayMs = NextDelay(worker[w].delayMs)]
  /\ UNCHANGED <<run, file, requestConcurrency, failure>>
  /\ UNCHANGED <<queue, results, active, launched>>
  /\ UNCHANGED <<articles, batches, reduceVars, pc, retryVars, runnerVars, fetchVars>>

\* does the try block of lines 387-393 throw on this content, and what does
\* it leave in parsed
TryParse(content) ==
  LET pj == JSONparse(content)
      parsed == ParsedFacts(pj.value)
  IN IF pj.threw THEN [threw |-> TRUE, pushed |-> FALSE, parsed |-> JUndef,
                       err |-> Err("syntax", NoStatus, "none")]
     ELSE IF parsed = JUndef
       THEN [threw |-> TRUE, pushed |-> TRUE, parsed |-> parsed,
             err |-> Err("type", NoStatus, "none")]
     ELSE [threw |-> FALSE, pushed |-> TRUE, parsed |-> parsed, err |-> NoErr]

\* the content of a batch came back but the try block throws on it
FactsContentRejected(w, resp) ==
  LET r == callOpenAIFacts(resp)
      me == worker[w]
      tp == TryParse(r.text)
  IN /\ run = "EXTRACTING"
     /\ launched = WorkerCount
     /\ me.st = "calling"
     /\ resp \in FactsResponses(me.item)
     /\ ~r.threw
     /\ tp.threw
     /\ results' = IF tp.pushed THEN push(results, tp.parsed) ELSE results
     /\ worker' = [worker EXCEPT ![w].st = "failed"]
     /\ MainCatches(tp.err)
     /\ UNCHANGED <<file, requestConcurrency, queue, active, launched>>
     /\ UNCHANGED <<articles, batches, reduceVars, pc, retryVars, runnerVars, fetchVars>>

\* the content of a batch came back and is pushed: the worker goes round its loop
FactsContentAccepted(w, resp) ==
  LET r == callOpenAIFacts(resp)
      me == worker[w]
      tp == TryParse(r.text)
  IN /\ run = "EXTRACTING"
     /\ launched = WorkerCount
     /\ me.st = "calling"
     /\ resp \in FactsResponses(me.item)
     /\ ~r.threw
     /\ ~tp.threw
     /\ results' = push(results, tp.parsed)
     /\ WorkerLoop(w, active - 1)
     /\ UNCHANGED <<run, file, requestConcurrency, failure, launched>>
     /\ UNCHANGED <<articles, batches, reduceVars, pc, retryVars, runnerVars, fetchVars>>

\* mutant: the first worker to return releases the caller (Promise.race)
AllWorkersResolved_Any == \E w \in Workers : worker[w].st = "done"

\* await Promise.all(workers)
AllWorkersResolved == \A w \in Workers : worker[w].st = "done"

\* mutant: the loop stops one chunk early
TextCallAfter_SkipsLast(n, cs, ms, tw) ==
  IF n + 1 < Len(cs) THEN FreshCall("chunk", n + 1, ChunkPrompt(cs[n + 1]))
                     ELSE FreshCall("final", 0, FinalPrompt(tw, ms))

\* the call reduceToReport issues once n chunks are done: the loop test
\* i < chunks.length with i = n, then the chunk call or the final call
TextCallAfter(n, cs, ms, tw) ==
  IF n < Len(cs) THEN FreshCall("chunk", n + 1, ChunkPrompt(cs[n + 1]))
                 ELSE FreshCall("final", 0, FinalPrompt(tw, ms))

\* Promise.all resolves: return results.flat(); reduceToReport starts and
\* issues its first request
ExtractReturns ==
  /\ run = "EXTRACTING"
  /\ launched = WorkerCount
  /\ AllWorkersResolved
  /\ facts' = flatResults(results)
  /\ chunks' = chunkArray(facts', ChunkSize)
  /\ miniSummaries' = <<>>
  /\ timeWindow' = IF Len(chunks') = 0 THEN computeTimeWindow(facts')
                                       ELSE timeWindow
  /\ red' = TextCallAfter(0, chunks', miniSummaries', timeWindow')
  /\ run' = "REDUCING"
  /\ UNCHANGED <<file, requestConcurrency, failure, report>>
  /\ UNCHANGED <<articles, batches, extractVars, pc, retryVars, runnerVars, fetchVars>>

\* a text request fails inside callOpenAIText: withRetry's catch runs
TextCallThrows(resp) ==
  LET r == callOpenAIText(resp)
  IN /\ run = "REDUCING"
     /\ red.st = "calling"
     /\ resp \in TextResponses(RedLabel)
     /\ r.threw
     /\ IF Rethrows(red.attempt + 1, r.err.status, DefaultTries)
          THEN /\ red' = [red EXCEPT !.st = "failed", !.attempt = red.attempt + 1]
               /\ MainCatches(r.err)
          ELSE /\ red' = [red EXCEPT !.st = "sleeping", !.attempt = red.attempt + 1]
               /\ UNCHANGED <<run, failure>>
     /\ UNCHANGED <<file, requestConcurrency, facts, chunks, miniSummaries>>
     /\ UNCHANGED <<timeWindow, report>>
     /\ UNCHANGED <<articles, batches, extractVars, pc, retryVars, runnerVars, fetchVars>>

\* the backoff timer of the reducer's withRetry fires and fn is called again
TextBackoffElapsed ==
  /\ run = "REDUCING"
  /\ red.st = "sleeping"
  /\ red' = [red EXCEPT !.st = "calling", !.delayMs = NextDelay(red.delayMs)]
  /\ UNCHANGED <<run, file, requestConcurrency, failure>>
  /\ UNCHANGED <<facts, chunks, miniSummaries, timeWindow, report>>
  /\ UNCHANGED <<articles, batches, extractVars, pc, retryVars, runnerVars, fetchVars>>

\* miniSummaries.push(md) and the next iteration, or the final call
ChunkBriefReturned(resp) ==
  LET r == callOpenAIText(resp)
  IN /\ run = "REDUCING"
     /\ red.st = "calling"
     /\ red.stage = "chunk"
     /\ resp \in TextResponses(RedLabel)
     /\ ~r.threw
     /\ miniSummaries' = push(miniSummaries, r.text)
     /\ timeWindow' = IF red.i < Len(chunks) THEN timeWindow
                                              ELSE computeTimeWindow(facts)
     /\ red' = TextCallAfter(red.i, chunks, miniSummaries', timeWindow')
     /\ UNCHANGED <<run, file, requestConcurrency, failure, facts, chunks, report>>
     /\ UNCHANGED <<articles, batches, extractVars, pc, retryVars, runnerVars, fetchVars>>

\* return finalMd; fs.writeFileSync(outPath, finalReport)
FinalReportReturned(resp) ==
  LET r == callOpenAIText(resp)
  IN /\ run = "REDUCING"
     /\ red.st = "calling"
     /\ red.stage = "final"
     /\ resp \in TextResponses(RedLabel)
     /\ ~r.threw
     /\ report' = r.text
     /\ red' = [red EXCEPT !.st = "returned"]
     /\ run' = "DONE"
     /\ UNCHANGED <<file, requestConcurrency, failure>>
     /\ UNCHANGED <<facts, chunks, miniSummaries, timeWindow>>
     /\ UNCHANGED <<articles, batches, extractVars, pc, retryVars, runnerVars, fetchVars>>

Next ==
  \/ LoadFails
  \/ LoadArticles
  \/ LaunchFactsWorker
  \/ \E w \in Workers : \E resp \in FactsResponses(worker[w].item) :
       FactsCallThrows(w, resp)
  \/ \E w \in Workers : FactsBackoffElapsed(w)
  \/ \E w \in Workers : \E resp \in FactsResponses(worker[w].item) :
       FactsContentRejected(w, resp)
  \/ \E w \in Workers : \E resp \in FactsResponses(worker[w].item) :
       FactsContentAccepted(w, resp)
  \/ ExtractReturns
  \/ \E resp \in TextResponses(RedLabel) : TextCallThrows(resp)
  \/ TextBackoffElapsed
  \/ \E resp \in TextResponses(RedLabel) : ChunkBriefReturned(resp)
  \/ \E resp \in TextResponses(RedLabel) : FinalReportReturned(resp)

Spec == InitMain /\ [][Next]_vars

\* the same run when the event loop keeps running: a request in flight is
\* eventually answered (with a result or an error, whichever the service
\* chooses), a backoff timer eventually fires, and a continuation that is
\* ready eventually runs
\* (checked for files of up to MaxLiveRows rows and up to MaxLiveWorkers
\* workers)
InitLive ==
  /\ InitMain
  /\ Len(file.rows) <= MaxLiveRows
  /\ requestConcurrency <= MaxLiveWorkers

SpecLive == InitLive /\ [][Next]_vars /\ WF_vars(Next)

\* C23: every run terminates. If each model call eventually returns or
\* raises and each backoff wait eventually elapses, the run eventually
\* reaches DONE or FAILED: withRetry does not loop forever under persistent
\* retriable failures, and every worker stops once the shared queue is
\* empty.
C23_RunTerminates == <>(run \in {"DONE", "FAILED"})

C23_Witness ==
  /\ run = "FAILED"
  /\ failure.status = NoStatus /\ failure.kind = "wrapped"
  /\ \E w \in Workers :
       /\ worker[w].st = "failed"
       /\ worker[w].attempt = DefaultTries
  /\ \E w \in Workers : worker[w].st = "done"

\* the urls of the articles of a batch
UrlsOf(batch) == {batch[i].url : i \in 1..Len(batch)}

\* the positions of results that hold a fact of batch b
EntriesOf(b) ==
  {j \in 1..Len(results) :
     /\ results[j].t = "array"
     /\ \E x \in 1..Len(results[j].items) :
          results[j].items[x].url \in UrlsOf(batches[b])}

\* C17: on a successful extraction over k batches, under every interleaving
\* of the workers, results receives exactly one entry per batch: every
\* entry is appended by the step in which the request of one batch
\* completes, behind the entries of the requests completed before, and is
\* that response whole and in the model's order. The fact list returned is
\* the concatenation of the entries in that order; a batch answered with
\* zero facts succeeds and contributes nothing.
C17_ResultsInCompletionOrder ==
  /\ [][ results' # results =>
           /\ Len(results') = Len(results) + 1
           /\ SubSeq(results', 1, Len(results)) = results
           /\ \E w \in Workers :
                /\ worker[w].st = "calling"
                /\ worker'[w] # worker[w]
                /\ \A v \in Workers \ {w} : worker'[v] = worker[v]
                /\ results'[Len(results')].t = "array" =>
                     results'[Len(results')].items
                        \in FactsPayloads(worker[w].item)
                               \cup RawFactsPayloads(worker[w].item) ]_vars
  /\ [](run \in {"REDUCING", "DONE"} =>
          /\ Len(results) = Len(batches)
          /\ \A b \in 1..Len(batches) : Cardinality(EntriesOf(b)) <= 1
          /\ (\A j \in 1..Len(results) : results[j].t = "array") =>
               facts = flat([j \in 1..Len(results) |-> results[j].items]))

C17_Witness ==
  /\ run = "REDUCING"
  /\ Len(batches) = 3
  /\ results[1] = JArr(OneFactPerArticle([batch |-> batches[3], index |-> 3]))
  /\ results[2] = JArr(<<>>)
  /\ results[3] = JArr(OneFactPerArticle([batch |-> batches[1], index |-> 1]))
  /\ facts = results[1].items \o results[3].items

\* C18: every Fact in the list extractFactsInBatches returns has a
\* confidence within [0, 1] (0..10 tenths): a value outside that range is
\* clamped, also when the response was accepted as raw text or as a bare
\* array.
C18_ConfidenceClamped ==
  run \in {"REDUCING", "DONE"} =>
    \A i \in 1..Len(facts) :
       facts[i].t = "fact" => facts[i].confidence \in 0..10

\* the moves of a run
RunEdges ==
  {<<"LOADING", "EXTRACTING">>, <<"EXTRACTING", "REDUCING">>,
   <<"REDUCING", "DONE">>, <<"LOADING", "FAILED">>,
   <<"EXTRACTING", "FAILED">>, <<"REDUCING", "FAILED">>}

\* C15: a run moves only along LOADING, EXTRACTING, REDUCING, DONE, or from
\* one of the first three to FAILED; DONE and FAILED are terminal; no chunk
\* or final call is issued before the extraction of every batch has
\* completed successfully; the report is written only once the final reduce
\* has returned; and FAILED is one step away from LOADING with no input
\* file, from EXTRACTING with a request in flight and from REDUCING with the
\* last attempt of a call in flight.
C15_RunLifecycle ==
  /\ [][ /\ run \notin {"DONE", "FAILED"}
         /\ run' = run \/ <<run, run'>> \in RunEdges ]_vars
  /\ [](/\ run \in {"LOADING", "EXTRACTING", "REDUCING", "DONE", "FAILED"}
        /\ red # IdleCall =>
             /\ run \in {"REDUCING", "DONE", "FAILED"}
             /\ \A w \in Workers : worker[w].st = "done"
             /\ queue = <<>>
             /\ Len(results) = Len(batches)
        /\ report # NoReport =>
             /\ run = "DONE"
             /\ red.stage = "final" /\ red.st = "returned"
        /\ (run = "LOADING" /\ ~file.exists) => ENABLED LoadFails
        /\ \A w \in Workers :
             (run = "EXTRACTING" /\ launched = WorkerCount
                /\ worker[w].st = "calling") =>
               ENABLED (\E resp \in FactsResponses(worker[w].item) :
                          FactsContentRejected(w, resp))
        /\ (run = "REDUCING" /\ red.st = "calling"
              /\ red.attempt = DefaultTries - 1) =>
             ENABLED (\E resp \in TextResponses(RedLabel) :
                        TextCallThrows(resp) /\ run' = "FAILED"))

C15_Witness ==
  /\ run = "FAILED"
  /\ red.stage = "final" /\ red.st = "failed"
  /\ Len(miniSummaries) = 1
  /\ Len(results) = 3
  /\ report = NoReport

----------------------------------------------------------------------------
(* reduceToReport over long fact lists, src/feedbin_summarize.ts:454-500:  *)
(* the run is taken up where every worker of extractFactsInBatches has     *)
(* returned and the batches have yielded many facts each                   *)

\* what the model puts in Fact.published of its k-th fact: a date for one
\* fact in forty, in no particular order, and null for the others
PublishedFor(k) ==
  IF k % 40 = 1 THEN IsoPublished(BaseDay + ((k * 3) % 7), 0) ELSE NullPublished

\* n facts drawn from the article url
ManyFacts(url, n) == [k \in 1..n |-> Fact(url, k, PublishedFor(k), InRange)]

\* lengths of the fact list: none, one, and around every multiple of
\* ChunkSize up to MaxChunks chunks
FactCounts ==
  {0, 1, 200, 80 * MaxChunks - 40}
    \cup UNION {{80 * c - 1, 80 * c, 80 * c + 1} : c \in 1..(MaxChunks - 1)}

\* the results of two batches that hold n facts together
ResultsOf(n) == <<JArr(ManyFacts(1, n - (n \div 3))), JArr(ManyFacts(2, n \div 3))>>

InitReduce ==
  /\ run = "EXTRACTING"
  /\ file = [exists |-> TRUE, rows |-> MkArticles(FullRows(2))]
  /\ requestConcurrency = 2
  /\ articles = loadArticles(file.rows)
  /\ batches = batchArticles(articles)
  /\ queue = <<>>
  /\ \E n \in FactCounts : results = ResultsOf(n)
  /\ active = 0
  /\ launched = WorkerCount
  /\ worker = [w \in Workers |-> [IdleWorker EXCEPT !.st = "done"]]
  /\ facts = <<>>
  /\ chunks = <<>>
  /\ miniSummaries = <<>>
  /\ timeWindow = NoWindow
  /\ red = IdleCall
  /\ report = NoReport
  /\ failure = NoErr
  /\ BatchIdle /\ RetryIdle /\ RunnerIdle /\ FetchIdle

NextReduce ==
  \/ ExtractReturns
  \/ \E resp \in TextResponses(RedLabel) : TextCallThrows(resp)
  \/ TextBackoffElapsed
  \/ \E resp \in TextResponses(RedLabel) : ChunkBriefReturned(resp)
  \/ \E resp \in TextResponses(RedLabel) : FinalReportReturned(resp)

SpecReduce == InitReduce /\ [][NextReduce]_vars

----------------------------------------------------------------------------
(* Claims on the pipeline *)

\* requests outstanding: issued and not yet settled, a backoff wait included
InFlight == {w \in DOMAIN worker : worker[w].st \in {"calling", "sleeping"}}

\* C4: during extractFactsInBatches the number of extraction requests in
\* flight, those waiting in a retry backoff included, never exceeds the
\* configured concurrency, and the function returns successfully only after
\* the request of every batch has completed.
C4_InFlightBounded ==
  /\ Cardinality(InFlight) <= requestConcurrency
  /\ active <= requestConcurrency
  /\ run \in {"REDUCING", "DONE"} =>
       /\ queue = <<>>
       /\ InFlight = {}
       /\ Len(results) = Len(batches)

C4_Witness ==
  /\ run = "EXTRACTING"
  /\ requestConcurrency = 2
  /\ Len(batches) = 3
  /\ Cardinality(InFlight) = 2
  /\ queue # <<>>
  /\ \E w \in InFlight : worker[w].st = "sleeping"

\* C7: a model call whose service failure is fatal (a 4xx status other than
\* 429) is not retried, in extraction and in reduction alike: the step that
\* handles the failure fails the run.
C7_FatalServiceFailureFailsRun ==
  [][ /\ \A w \in Workers : \A s \in HttpFailures :
           (IsFatalStatus(s) /\ FactsCallThrows(w, Rejects(s)))
              => run' = "FAILED"
      /\ \A s \in HttpFailures :
           (IsFatalStatus(s) /\ TextCallThrows(Rejects(s)))
              => run' = "FAILED" ]_vars

\* C8: a truncation error (status incomplete, reason max_output_tokens) is
\* not retriable: the step in which a facts or text call raises it fails the
\* run with that error, and the request is not issued again.
C8_TruncationNotRetried ==
  [][ /\ \A w \in Workers : \A resp \in FactsResponses(worker[w].item) :
           (callResponsesFacts(resp) = Threw(TruncationError)
              /\ FactsCallThrows(w, resp))
              => run' = "FAILED" /\ failure'.cause = "truncation"
      /\ \A resp \in TextResponses(RedLabel) :
           (callResponsesText(resp) = Threw(TruncationError)
              /\ TextCallThrows(resp))
              => run' = "FAILED" /\ failure'.cause = "truncation" ]_vars

\* C9: whenever the service reports a response as incomplete because of the
\* output ceiling, callResponsesFacts and callResponsesText raise the
\* truncation error and never return the text or parsed object the response
\* carries.
C9_TruncatedNeverReturned ==
  [][ /\ \A w \in Workers : \A resp \in FactsResponses(worker[w].item) :
           (IsTruncated(resp)
              /\ (\/ FactsCallThrows(w, resp)
                  \/ FactsContentRejected(w, resp)
                  \/ FactsContentAccepted(w, resp)))
              => callResponsesFacts(resp) = Threw(TruncationError)
      /\ \A resp \in TextResponses(RedLabel) :
           (IsTruncated(resp)
              /\ (\/ TextCallThrows(resp)
                  \/ ChunkBriefReturned(resp)
                  \/ FinalReportReturned(resp)))
              => callResponsesText(resp) = Threw(TruncationError) ]_vars

\* the shape the extractor expects: an object with an array property facts,
\* or a bare array
ExpectedShape(text) ==
  /\ text.json
  /\ \/ text.value.t = "array"
     \/ text.value.t = "object" /\ text.value.facts.t = "array"

\* C10: when a structured-extraction call returns text that is not JSON or
\* has not the expected shape, the batch fails without its request being
\* issued again, the run fails, no reduce call is made and no report is
\* written.
C10_MalformedOutputAbortsRun ==
  [][ \A w \in Workers : \A resp \in FactsResponses(worker[w].item) :
        (/\ ~callOpenAIFacts(resp).threw
         /\ ~ExpectedShape(callOpenAIFacts(resp).text)
         /\ (FactsContentRejected(w, resp) \/ FactsContentAccepted(w, resp)))
          => /\ run' = "FAILED"
             /\ worker'[w].st = "failed"
             /\ red' = IdleCall
             /\ report' = NoReport ]_vars

\* C11: there is no partial success. Once a batch extraction, a chunk brief
\* or the final reduce has failed unrecovered the run is failed and the
\* report is never written; after an extraction failure no reduce call is
\* issued and the facts of sibling batches, pushed or still in flight, are
\* never flattened into a fact list; the report is written only when every
\* batch, every chunk and the final reduce have succeeded.
C11_NoPartialSuccess ==
  /\ (\E w \in Workers : worker[w].st = "failed") =>
       /\ run = "FAILED"
       /\ red = IdleCall
       /\ facts = <<>>
       /\ miniSummaries = <<>>
  /\ red.st = "failed" => run = "FAILED"
  /\ run = "FAILED" => report = NoReport
  /\ (run = "DONE" \/ report # NoReport) =>
       /\ run = "DONE" /\ report # NoReport
       /\ \A w \in Workers : worker[w].st = "done"
       /\ queue = <<>>
       /\ Len(results) = Len(batches)
       /\ Len(miniSummaries) = Len(chunks)
       /\ red.stage = "final" /\ red.st = "returned"

C11_Witness ==
  /\ run = "FAILED"
  /\ Len(batches) = 3
  /\ \E w \in Workers : worker[w].st = "failed"
  /\ \E w \in Workers : worker[w].st \in {"calling", "sleeping"}
  /\ results # <<>>
  /\ report = NoReport

\* C12: when there is no usable input (the input file is missing, or no
\* article is left after filtering) the run aborts as a fatal input error
\* before any model call is issued, and no report is written.
C12_NoUsableInputAborts ==
  (run # "LOADING" /\ (~file.exists \/ loadArticles(file.rows) = <<>>)) =>
     /\ run = "FAILED"
     /\ InFlight = {}
     /\ red = IdleCall
     /\ report = NoReport

----------------------------------------------------------------------------
(* fetchEntryContent and main(), src/feedbin_fetch.ts:132-202: every entry  *)
(* has its own request, all started by entries.map before any answer is    *)
(* handled; Promise.all keeps the order of the entries                      *)

\* what the request for the extracted content of an entry may come to:
\* axios rejects; or it resolves with content that is a page, an empty
\* page, or nothing htmlToText can convert
ContentResponses == {"rejects", "page", "empty page", "not html"}

\* htmlToText(response.content, ...).replace(/\n/g, " "): the text, by its
\* length, or an exception
htmlToText(resp) ==
  IF resp = "page" THEN [threw |-> FALSE, text |-> [t |-> "string", len |-> 7]]
  ELSE IF resp = "empty page"
    THEN [threw |-> FALSE, text |-> [t |-> "string", len |-> 0]]
  ELSE [threw |-> TRUE, text |-> JUndef]

\* an entry whose callback has not resolved yet
Pending(e) == [entry |-> e, settled |-> FALSE, threw |-> FALSE,
               extractedContent |-> JUndef]

\* the callback of entries.map for one entry, lines 137-149
fetchOneEntry(e, resp) ==
  IF resp = "rejects" \/ htmlToText(resp).threw
    THEN [entry |-> e, settled |-> TRUE, threw |-> TRUE,
          extractedContent |-> JUndef]
    ELSE [entry |-> e, settled |-> TRUE, threw |-> FALSE,
          extractedContent |-> htmlToText(resp).text]

\* mutant: the filter keeps the entries with a truthy content
hasContent_Truthy(x) ==
  x.extractedContent # JUndef /\ x.extractedContent.len > 0

\* (entry) => entry.extractedContent !== undefined
hasContent(x) == x.extractedContent # JUndef

\* what is written for an entry: { ...entry, extractedContent }
SavedRow(x) == [entry |-> x.entry, extractedContent |-> x.extractedContent]

NotWritten == [written |-> FALSE, rows |-> <<>>]
Written(rows) == [written |-> TRUE, rows |-> rows]

InitFetch ==
  /\ fpc = "fetching"
  /\ \E n \in 0..MaxEntries : entries = [i \in 1..n |-> i]
  /\ entriesWithContent = [i \in 1..Len(entries) |-> Pending(entries[i])]
  /\ savedCsv = NotWritten
  /\ savedJson = NotWritten
  /\ BatchIdle /\ articles = <<>> /\ batches = <<>>
  /\ RetryIdle /\ RunnerIdle /\ MainIdle

\* the request of entry i settles and its callback resolves
ContentSettles(i, resp) ==
  /\ fpc = "fetching"
  /\ i \in 1..Len(entries)
  /\ ~entriesWithContent[i].settled
  /\ entriesWithContent' =
       [entriesWithContent EXCEPT ![i] = fetchOneEntry(entries[i], resp)]
  /\ UNCHANGED <<fpc, entries, savedCsv, savedJson>>
  /\ UNCHANGED <<batchVars, retryVars, runnerVars, pipeVars>>

\* Promise.all resolves; main filters and saves. saveToCSV catches its own
\* failure, so the CSV may be missing while the JSON is written
MainSaves(csvOk) ==
  LET onlyWithContent == SelectSeq(entriesWithContent, hasContent)
      rows == [i \in 1..Len(onlyWithContent) |-> SavedRow(onlyWithContent[i])]
  IN /\ fpc = "fetching"
     /\ \A i \in 1..Len(entries) : entriesWithContent[i].settled
     /\ savedCsv' = IF csvOk THEN Written(rows) ELSE NotWritten
     /\ savedJson' = Written(rows)
     /\ fpc' = "saved"
     /\ UNCHANGED <<entries, entriesWithContent>>
     /\ UNCHANGED <<batchVars, retryVars, runnerVars, pipeVars>>

NextFetch ==
  \/ \E i \in 1..Len(entries) : \E resp \in ContentResponses :
       ContentSettles(i, resp)
  \/ \E csvOk \in BOOLEAN : MainSaves(csvOk)

SpecFetch == InitFetch /\ [][NextFetch]_vars

\* the entries whose content fetch and conversion succeeded
Succeeded ==
  {i \in 1..Len(entries) :
     entriesWithContent[i].settled /\ ~entriesWithContent[i].threw}

\* C21: in the feedbin fetch layer a failure while fetching or converting
\* the content of one entry never fails the run and touches no other entry:
\* the entry gets an undefined content field and is left out of the saved
\* output, which holds exactly the entries whose content fetch succeeded, in
\* their original order.
C21_FailedEntriesDropped ==
  /\ [](/\ fpc \in {"fetching", "saved"}
        /\ \A i \in 1..Len(entries) :
             LET x == entriesWithContent[i]
             IN /\ x.entry = entries[i]
                /\ (x.settled /\ x.threw) => x.extractedContent = JUndef
                /\ (x.settled /\ ~x.threw) => x.extractedContent # JUndef
        /\ fpc = "saved" =>
             /\ savedJson.written
             /\ Len(savedJson.rows) = Cardinality(Succeeded)
             /\ {savedJson.rows[k].entry : k \in 1..Len(savedJson.rows)}
                  = {entries[i] : i \in Succeeded}
             /\ \A k \in 1..Len(savedJson.rows) :
                  /\ k > 1 => savedJson.rows[k - 1].entry < savedJson.rows[k].entry
                  /\ savedJson.rows[k].extractedContent =
                       entriesWithContent[savedJson.rows[k].entry].extractedContent
             /\ savedCsv.written => savedCsv.rows = savedJson.rows)
  /\ [][ entriesWithContent' # entriesWithContent =>
           \E i \in 1..Len(entries) :
             /\ ~entriesWithContent[i].settled
             /\ entriesWithContent'[i].settled
             /\ \A j \in 1..Len(entries) \ {i} :
                  entriesWithContent'[j] = entriesWithContent[j] ]_vars

C21_Witness ==
  /\ fpc = "saved"
  /\ Len(entries) = 3
  /\ entriesWithContent[1].threw
  /\ entriesWithContent[2].extractedContent = [t |-> "string", len |-> 0]
  /\ entriesWithContent[3].extractedContent = [t |-> "string", len |-> 7]
  /\ savedJson.rows = <<SavedRow(entriesWithContent[2]),
                         SavedRow(entriesWithContent[3])>>

----------------------------------------------------------------------------
(* Claims on reduceToReport *)

\* ceil(n / 80)
ChunksFor(n) == (n + 79) \div 80

\* C13: for a fact list of length n, reduceToReport asks for exactly
\* ceil(n/80) chunk briefs, chunk i holding facts 80(i-1)+1 .. min(80i, n) in
\* their order (200 facts give chunks of 80, 80 and 40), and then makes one
\* final reduce call whose prompt holds exactly those briefs, labelled
\* [Chunk 1] .. [Chunk k] in index order.
C13_ChunksAndFinalPrompt ==
  LET n == Len(facts)
      k == ChunksFor(n)
  IN run \in {"REDUCING", "DONE"} =>
       /\ Len(chunks) = k
       /\ \A i \in 1..k :
            chunks[i] = [j \in 1..(Min(80 * i, n) - 80 * (i - 1)) |->
                           facts[80 * (i - 1) + j]]
       /\ red.stage \in {"chunk", "final"}
       /\ red.stage = "chunk" =>
            /\ red.i \in 1..k
            /\ red.prompt.kind = "chunk"
            /\ red.prompt.facts = JSONstringify(JArr(chunks[red.i]))
       /\ Len(miniSummaries) <= k
       /\ \A i \in 1..Len(miniSummaries) :
            miniSummaries[i].value = ChunkLabel(i)
       /\ red.stage = "final" =>
            /\ Len(miniSummaries) = k
            /\ red.prompt.kind = "final"
            /\ red.prompt.briefs =
                 [i \in 1..k |-> [label |-> i, brief |-> miniSummaries[i]]]
       /\ run = "DONE" => red.stage = "final" /\ report.value = FinalLabel

C13_Witness ==
  /\ run = "DONE"
  /\ Len(facts) = 200
  /\ <<Len(chunks[1]), Len(chunks[2]), Len(chunks[3])>> = <<80, 80, 40>>
  /\ Len(red.prompt.briefs) = 3

\* C16: the map phase of reduceToReport is strictly sequential. The one call
\* in flight for chunk i, retries included, finds exactly the briefs of
\* chunks 1 .. i-1 stored; a brief is stored only by the return of the call
\* in flight, at the index of its chunk; the call for chunk i+1 starts only
\* in the step that stores brief i; and the final reduce call starts only in
\* a step after which the brief of every chunk is stored.
C16_MapPhaseSequential ==
  /\ [](red.stage = "chunk" =>
          /\ red.i \in 1..Len(chunks)
          /\ Len(miniSummaries) = red.i - 1)
  /\ [][ /\ miniSummaries' # miniSummaries =>
              /\ red.stage = "chunk" /\ red.st = "calling"
              /\ Len(miniSummaries') = red.i
              /\ SubSeq(miniSummaries', 1, red.i - 1) = miniSummaries
              /\ miniSummaries'[red.i].value = ChunkLabel(red.i)
         /\ (red'.stage = "chunk" /\ red'.i # red.i) =>
              /\ red'.i = red.i + 1
              /\ red'.attempt = 0
              /\ Len(miniSummaries') = red.i
         /\ (red'.stage = "chunk" /\ red'.i = red.i) =>
              /\ red.stage = "chunk"
              /\ miniSummaries' = miniSummaries
         /\ (red'.stage = "final" /\ red.stage # "final") =>
              /\ Len(miniSummaries') = Len(chunks')
              /\ red.stage = "chunk" => red.i = Len(chunks) ]_vars

C16_Witness ==
  /\ run = "REDUCING"
  /\ Len(chunks) = 3
  /\ red.stage = "chunk" /\ red.i = 3
  /\ red.st = "sleeping" /\ red.attempt = 2
  /\ Len(miniSummaries) = 2

\* C24: reduceToReport called with an empty fact list issues no chunk-brief
\* call and exactly one final reduce call: from its first step on, the call
\* in flight is the final one, its prompt carries the placeholder time
\* window "the last week" and no chunk section, no brief is ever stored, no
\* other call is started, and the text that call returns is the report.
C24_EmptyFactsOneFinalCall ==
  /\ []((run \in {"REDUCING", "DONE"} /\ facts = <<>>) =>
          /\ chunks = <<>>
          /\ miniSummaries = <<>>
          /\ red.stage = "final"
          /\ red.prompt.kind = "final"
          /\ red.prompt.timeWindow.t = "the last week"
          /\ red.prompt.briefs = <<>>)
  /\ [][(run = "REDUCING" /\ facts = <<>>) =>
          /\ red'.stage = "final"
          /\ red'.prompt = red.prompt
          /\ red'.attempt \in {red.attempt, red.attempt + 1}
          /\ run' = "DONE" =>
               /\ red.st = "calling"
               /\ ~report'.blank
               /\ report'.value = FinalLabel
          /\ run' # "DONE" => report' = NoReport]_vars

C24_Witness ==
  /\ run = "DONE"
  /\ facts = <<>>
  /\ red.prompt.briefs = <<>>
  /\ red.prompt.timeWindow = LastWeek
  /\ report.value = FinalLabel

====
